---- MODULE Spec2Model ----
(***************************************************************************)
(* Model of the OFZ calculator core (ofz_core.py): the coupon              *)
(* reinvestment simulation in its detailed and simple variants, and the    *)
(* search for the minimal initial quantity that reaches a target amount.   *)
(*                                                                         *)
(* Money is an integer number of units; one kopeck (0.01) is CentUnits     *)
(* units, so that round(x, 2) is a real rounding and not the identity.     *)
(* Dates are small integers (day numbers).                                 *)
(***************************************************************************)
EXTENDS Integers, Sequences, FiniteSets, TLC

VARIABLES
    bond,              \* the bond dict: face_value, maturity_date, purchase_price_with_nkd, coupons
    purchase_date,     \* argument purchase_date
    initial_qty,       \* argument initial_qty of the simulation
    reinvest_price,    \* argument reinvest_price of the simulation
    allow_carry_over,  \* argument allow_carry_over
    target_amount,     \* argument target_amount of find_min_qty_for_target
    pc,                \* position of the running call
    qty,               \* local qty of the running simulation
    cash,              \* local cash of the running simulation
    final_coupon_cash, \* local final_coupon_cash of the running simulation
    idx,               \* number of future coupons the running loop has consumed
    log,               \* local log of the detailed simulation (kinds of lines)
    res_detailed,      \* what simulate_reinvest_detailed returned or raised
    res_simple,        \* what simulate_reinvest_simple returned or raised
    lower_qty,         \* solver local lower_qty
    lower_val,         \* solver local lower_val
    upper_qty,         \* solver local upper_qty
    upper_val,         \* solver local upper_res["final_amount"]
    best_qty,          \* solver local best_qty
    best_val,          \* solver local best_val
    left,              \* solver local left
    right,             \* solver local right
    probes,            \* quantities the solver has passed to the simulation, in order
    res_solver         \* what find_min_qty_for_target returned or raised

inputVars == <<bond, purchase_date, initial_qty, reinvest_price, allow_carry_over, target_amount>>
simVars == <<qty, cash, final_coupon_cash, idx, log, res_detailed, res_simple>>
solverVars == <<lower_qty, lower_val, upper_qty, upper_val, best_qty, best_val, left, right,
                probes, res_solver>>
vars == <<bond, purchase_date, initial_qty, reinvest_price, allow_carry_over, target_amount,
          pc, qty, cash, final_coupon_cash, idx, log, res_detailed, res_simple,
          lower_qty, lower_val, upper_qty, upper_val, best_qty, best_val, left, right,
          probes, res_solver>>

(***************************************************************************)
(* Bounds of the model.                                                    *)
(***************************************************************************)
MaxDate == 2
MaxCoupons == 3
MaxQty == 3
MaxTargetLots == 6
MaxMonoQty == 12
MaxSolverCoupons == 2

\* units per 0.01: the resolution below the second decimal
CentUnits == 10

\* the hard ceiling of the exponential bracketing
Ceiling == 10000000

NoValue == 0 - 1

Dates == 1..MaxDate
FaceValues == {20, 25}
CouponValues == {7, 15}
PurchasePrices == {0, 19}
InitialQtys == (0 - 1)..MaxQty

(***************************************************************************)
(* Arithmetic of the Python operators used by the code.                    *)
(***************************************************************************)
\* FloorDiv with the remainder operator in place of the floor division
FloorDiv_Remainder(a, b) ==
    IF b > 0 THEN a % b ELSE (0 - a) % (0 - b)

\* a // b of Python for b # 0: the floor of the quotient
FloorDiv(a, b) ==
    IF b > 0 THEN a \div b ELSE (0 - a) \div (0 - b)

\* Round2 that rounds to one decimal place
Round2_OneDecimal(x) ==
    LET k == x \div (10 * CentUnits)
        r == x - k * 10 * CentUnits
    IN  IF 2 * r < 10 * CentUnits THEN k * 10 * CentUnits
        ELSE IF 2 * r > 10 * CentUnits THEN (k + 1) * 10 * CentUnits
        ELSE IF k % 2 = 0 THEN k * 10 * CentUnits
        ELSE (k + 1) * 10 * CentUnits

\* round(x, 2): to the nearest multiple of 0.01, a tie to the even one
Round2(x) ==
    LET k == x \div CentUnits
        r == x - k * CentUnits
    IN  IF 2 * r < CentUnits THEN k * CentUnits
        ELSE IF 2 * r > CentUnits THEN (k + 1) * CentUnits
        ELSE IF k % 2 = 0 THEN k * CentUnits
        ELSE (k + 1) * CentUnits

\* FutureCoupons that drops the coupon paid on the purchase date
FutureCoupons_AfterPurchase(b, pd) ==
    SelectSeq(b.coupons, LAMBDA c : c[1] > pd)

\* [c for c in bond["coupons"] if c[0] >= purchase_date]
FutureCoupons(b, pd) ==
    SelectSeq(b.coupons, LAMBDA c : c[1] >= pd)

(***************************************************************************)
(* The bonds and the arguments the calls are made with.                    *)
(***************************************************************************)
\* coupons.sort(key=lambda x: x[0]): the schedule is ascending by date
IsSortedByDate(cs) ==
    \A i \in 1..(Len(cs) - 1) : cs[i][1] <= cs[i + 1][1]

\* coupon lists as fetch_bond builds them: positive values, ascending dates
CouponLists ==
    UNION { { cs \in [1..n -> Dates \X CouponValues] : IsSortedByDate(cs) } : n \in 0..MaxCoupons }

Bonds ==
    [face_value : FaceValues, maturity_date : Dates,
     purchase_price_with_nkd : PurchasePrices, coupons : CouponLists]

\* the local state of one simulation run
SimState(q, c, f, st, e) ==
    [qty |-> q, cash |-> c, final_coupon_cash |-> f, stopped |-> st, error |-> e]

\* DetailedStep whose last coupon is credited without the carried cash
DetailedStep_LastWithoutCarry(st, c, b, price, carry) ==
    LET pay_date == c[1]
        coupon_value == c[2]
        coupon_income == coupon_value * st.qty
        carry_over == IF carry THEN st.cash ELSE 0
        total_coupon == coupon_income + carry_over
        is_last_coupon == pay_date >= b.maturity_date
    IN  IF is_last_coupon
        THEN [st EXCEPT !.final_coupon_cash = coupon_income, !.cash = 0, !.stopped = TRUE]
        ELSE IF price = 0
        THEN [st EXCEPT !.error = "ZeroDivisionError"]
        ELSE LET reinvest_qty == FloorDiv(total_coupon, price)
                 reinvest_cost == reinvest_qty * price
             IN  [st EXCEPT !.cash = IF carry THEN Round2(total_coupon - reinvest_cost) ELSE 0,
                            !.qty = st.qty + reinvest_qty]

\* DetailedStep with the remainder subtracted the wrong way round
DetailedStep_NegatedRemainder(st, c, b, price, carry) ==
    LET pay_date == c[1]
        coupon_value == c[2]
        coupon_income == coupon_value * st.qty
        carry_over == IF carry THEN st.cash ELSE 0
        total_coupon == coupon_income + carry_over
        is_last_coupon == pay_date >= b.maturity_date
    IN  IF is_last_coupon
        THEN [st EXCEPT !.final_coupon_cash = total_coupon, !.cash = 0, !.stopped = TRUE]
        ELSE IF price = 0
        THEN [st EXCEPT !.error = "ZeroDivisionError"]
        ELSE LET reinvest_qty == FloorDiv(total_coupon, price)
                 reinvest_cost == reinvest_qty * price
             IN  [st EXCEPT !.cash = IF carry THEN Round2(reinvest_cost - total_coupon) ELSE 0,
                            !.qty = st.qty + reinvest_qty]

(***************************************************************************)
(* simulate_reinvest_detailed: one iteration of the coupon loop.           *)
(***************************************************************************)
DetailedStep(st, c, b, price, carry) ==
    LET pay_date == c[1]
        coupon_value == c[2]
        coupon_income == coupon_value * st.qty
        carry_over == IF carry THEN st.cash ELSE 0
        total_coupon == coupon_income + carry_over
        is_last_coupon == pay_date >= b.maturity_date
    IN  IF is_last_coupon
        THEN [st EXCEPT !.final_coupon_cash = total_coupon, !.cash = 0, !.stopped = TRUE]
        ELSE IF price = 0
        THEN [st EXCEPT !.error = "ZeroDivisionError"]
        ELSE LET reinvest_qty == FloorDiv(total_coupon, price)
                 reinvest_cost == reinvest_qty * price
             IN  [st EXCEPT !.cash = IF carry THEN Round2(total_coupon - reinvest_cost) ELSE 0,
                            !.qty = st.qty + reinvest_qty]

\* SimpleStep with the remainder kept although carry-over is disabled
SimpleStep_KeepsCash(st, c, b, price, carry) ==
    LET total_coupon == c[2] * st.qty + (IF carry THEN st.cash ELSE 0)
        is_last_coupon == c[1] >= b.maturity_date
    IN  IF is_last_coupon
        THEN [st EXCEPT !.final_coupon_cash = total_coupon, !.cash = 0, !.stopped = TRUE]
        ELSE IF price = 0
        THEN [st EXCEPT !.error = "ZeroDivisionError"]
        ELSE LET reinvest_qty == FloorDiv(total_coupon, price)
             IN  [st EXCEPT !.cash = Round2(total_coupon - reinvest_qty * price),
                            !.qty = st.qty + reinvest_qty]

\* SimpleStep without the break after the last coupon
SimpleStep_NoBreak(st, c, b, price, carry) ==
    LET total_coupon == c[2] * st.qty + (IF carry THEN st.cash ELSE 0)
        is_last_coupon == c[1] >= b.maturity_date
    IN  IF is_last_coupon
        THEN [st EXCEPT !.final_coupon_cash = total_coupon, !.cash = 0]
        ELSE IF price = 0
        THEN [st EXCEPT !.error = "ZeroDivisionError"]
        ELSE LET reinvest_qty == FloorDiv(total_coupon, price)
             IN  [st EXCEPT !.cash = IF carry
                                     THEN Round2(total_coupon - reinvest_qty * price)
                                     ELSE 0,
                            !.qty = st.qty + reinvest_qty]

\* SimpleStep that keeps the remainder when carry-over is disabled and drops
\* it when carry-over is enabled
SimpleStep_CarryInverted(st, c, b, price, carry) ==
    LET total_coupon == c[2] * st.qty + (IF ~carry THEN st.cash ELSE 0)
        is_last_coupon == c[1] >= b.maturity_date
    IN  IF is_last_coupon
        THEN [st EXCEPT !.final_coupon_cash = total_coupon, !.cash = 0, !.stopped = TRUE]
        ELSE IF price = 0
        THEN [st EXCEPT !.error = "ZeroDivisionError"]
        ELSE LET reinvest_qty == FloorDiv(total_coupon, price)
             IN  [st EXCEPT !.cash = IF ~carry
                                     THEN Round2(total_coupon - reinvest_qty * price)
                                     ELSE 0,
                            !.qty = st.qty + reinvest_qty]

(***************************************************************************)
(* simulate_reinvest_simple: one iteration of the coupon loop.             *)
(***************************************************************************)
SimpleStep(st, c, b, price, carry) ==
    LET total_coupon == c[2] * st.qty + (IF carry THEN st.cash ELSE 0)
        is_last_coupon == c[1] >= b.maturity_date
    IN  IF is_last_coupon
        THEN [st EXCEPT !.final_coupon_cash = total_coupon, !.cash = 0, !.stopped = TRUE]
        ELSE IF price = 0
        THEN [st EXCEPT !.error = "ZeroDivisionError"]
        ELSE LET reinvest_qty == FloorDiv(total_coupon, price)
             IN  [st EXCEPT !.cash = IF carry
                                     THEN Round2(total_coupon - reinvest_qty * price)
                                     ELSE 0,
                            !.qty = st.qty + reinvest_qty]

\* SimpleResult that leaves the cash out of final_amount
SimpleResult_WithoutCash(st, b) ==
    IF st.error # "none"
    THEN [error |-> st.error, final_amount |-> NoValue, final_qty |-> NoValue]
    ELSE LET redemption == st.qty * b.face_value
             final_amount == redemption + st.final_coupon_cash
         IN  [error |-> "none", final_amount |-> final_amount, final_qty |-> st.qty]

\* the value simulate_reinvest_simple returns from the state its loop ended in
SimpleResult(st, b) ==
    IF st.error # "none"
    THEN [error |-> st.error, final_amount |-> NoValue, final_qty |-> NoValue]
    ELSE LET redemption == st.qty * b.face_value
             final_amount == redemption + st.final_coupon_cash + st.cash
         IN  [error |-> "none", final_amount |-> final_amount, final_qty |-> st.qty]

\* DetailedResult with the guard years >= 0 in place of years > 0
DetailedResult_DividesAtMaturity(st, b, pd, q, lg) ==
    IF st.error # "none"
    THEN [error |-> st.error]
    ELSE LET initial_investment == q * b.purchase_price_with_nkd
             redemption == st.qty * b.face_value
             final_amount == redemption + st.final_coupon_cash + st.cash
             profit == final_amount - initial_investment
             days == b.maturity_date - pd
         IN  IF days >= 0 /\ (initial_investment = 0 \/ days = 0)
             THEN [error |-> "ZeroDivisionError"]
             ELSE [error |-> "none",
                   final_quantity |-> st.qty,
                   final_amount |-> final_amount,
                   initial_investment |-> initial_investment,
                   profit |-> profit,
                   annualized_return |->
                       IF days >= 0
                       THEN [num |-> profit, den |-> initial_investment * days]
                       ELSE [num |-> 0, den |-> 1],
                   log |-> Append(lg, "redemption")]

\* DetailedResult without the guard years > 0: the division is always made
DetailedResult_AlwaysAnnualizes(st, b, pd, q, lg) ==
    IF st.error # "none"
    THEN [error |-> st.error]
    ELSE LET initial_investment == q * b.purchase_price_with_nkd
             redemption == st.qty * b.face_value
             final_amount == redemption + st.final_coupon_cash + st.cash
             profit == final_amount - initial_investment
             days == b.maturity_date - pd
         IN  IF days = 0 \/ initial_investment = 0
             THEN [error |-> "ZeroDivisionError"]
             ELSE [error |-> "none",
                   final_quantity |-> st.qty,
                   final_amount |-> final_amount,
                   initial_investment |-> initial_investment,
                   profit |-> profit,
                   annualized_return |-> [num |-> profit, den |-> initial_investment * days],
                   log |-> Append(lg, "redemption")]

\* the value simulate_reinvest_detailed returns from the state its loop ended in;
\* annualized_return is kept as the exact fraction num / den, in units of
\* 36525 percent: (profit / initial_investment) / (days / 365.25) * 100
DetailedResult(st, b, pd, q, lg) ==
    IF st.error # "none"
    THEN [error |-> st.error]
    ELSE LET initial_investment == q * b.purchase_price_with_nkd
             redemption == st.qty * b.face_value
             final_amount == redemption + st.final_coupon_cash + st.cash
             profit == final_amount - initial_investment
             days == b.maturity_date - pd
         IN  IF days > 0 /\ initial_investment = 0
             THEN [error |-> "ZeroDivisionError"]
             ELSE [error |-> "none",
                   final_quantity |-> st.qty,
                   final_amount |-> final_amount,
                   initial_investment |-> initial_investment,
                   profit |-> profit,
                   annualized_return |->
                       IF days > 0
                       THEN [num |-> profit, den |-> initial_investment * days]
                       ELSE [num |-> 0, den |-> 1],
                   log |-> Append(lg, "redemption")]

RECURSIVE SimpleLoop(_, _, _, _, _, _)
\* the for loop of simulate_reinvest_simple from the i-th future coupon on
SimpleLoop(st, fc, i, b, price, carry) ==
    IF i > Len(fc) \/ st.stopped \/ st.error # "none"
    THEN st
    ELSE SimpleLoop(SimpleStep(st, fc[i], b, price, carry), fc, i + 1, b, price, carry)

\* simulate_reinvest_simple as a function of its arguments
simulate_reinvest_simple(b, pd, q, price, carry) ==
    SimpleResult(SimpleLoop(SimState(q, 0, 0, FALSE, "none"), FutureCoupons(b, pd), 1,
                            b, price, carry), b)

RECURSIVE DetailedLoop(_, _, _, _, _, _)
\* the for loop of simulate_reinvest_detailed from the i-th future coupon on
DetailedLoop(st, fc, i, b, price, carry) ==
    IF i > Len(fc) \/ st.stopped \/ st.error # "none"
    THEN st
    ELSE DetailedLoop(DetailedStep(st, fc[i], b, price, carry), fc, i + 1, b, price, carry)

\* simulate_reinvest_detailed as a function of its arguments (without the log)
simulate_reinvest_detailed(b, pd, q, price, carry) ==
    DetailedResult(DetailedLoop(SimState(q, 0, 0, FALSE, "none"), FutureCoupons(b, pd), 1,
                                b, price, carry), b, pd, q, <<>>)

(***************************************************************************)
(* The simulator, run coupon by coupon: a caller invokes the detailed      *)
(* variant and then the simple variant with the same arguments.            *)
(***************************************************************************)
NoResult == [error |-> "pending"]

SolverIdle ==
    /\ lower_qty = NoValue /\ lower_val = NoValue
    /\ upper_qty = NoValue /\ upper_val = NoValue
    /\ best_qty = NoValue /\ best_val = NoValue
    /\ left = NoValue /\ right = NoValue
    /\ probes = <<>>
    /\ res_solver = NoResult

SimIdle ==
    /\ qty = NoValue /\ cash = NoValue /\ final_coupon_cash = NoValue
    /\ idx = 0 /\ log = <<>>
    /\ res_detailed = NoResult /\ res_simple = NoResult

\* an amount of whole rubles in units
Rub(x) == x * 100 * CentUnits

\* the bond of the worked scenario: face 1000, bought at 980, a coupon of 35
\* and a last coupon of 1035 on the maturity date
WorkedBond ==
    [face_value |-> Rub(1000), maturity_date |-> 2, purchase_price_with_nkd |-> Rub(980),
     coupons |-> << <<1, Rub(35)>>, <<2, Rub(1035)>> >>]

\* the state in which a caller is about to invoke the simulation
Init ==
    /\ \/ /\ bond \in Bonds
          /\ initial_qty \in InitialQtys
          /\ reinvest_price \in {0 - 15, 0, 15, 17, bond.face_value}
       \/ /\ bond = WorkedBond
          /\ initial_qty = 10
          /\ reinvest_price = bond.face_value
    /\ purchase_date \in Dates
    /\ allow_carry_over \in BOOLEAN
    /\ target_amount = NoValue
    /\ pc = "start"
    /\ SimIdle
    /\ SolverIdle

current == SimState(qty, cash, final_coupon_cash, FALSE, "none")

\* simulate_reinvest_detailed up to the loop: the locals and the first log lines
DetailedEnter ==
    /\ pc = "start"
    /\ qty' = initial_qty
    /\ cash' = 0
    /\ final_coupon_cash' = 0
    /\ idx' = 0
    /\ log' = <<"purchase", "carry_mode",
                IF FutureCoupons(bond, purchase_date) = <<>> THEN "no_coupons" ELSE "nearest">>
    /\ pc' = "detailed_loop"
    /\ UNCHANGED <<inputVars, res_detailed, res_simple, solverVars>>

\* one iteration of the loop of simulate_reinvest_detailed
DetailedCouponStep ==
    /\ pc = "detailed_loop"
    /\ idx < Len(FutureCoupons(bond, purchase_date))
    /\ LET c == FutureCoupons(bond, purchase_date)[idx + 1]
           nxt == DetailedStep(current, c, bond, reinvest_price, allow_carry_over)
       IN  /\ idx' = idx + 1
           /\ IF nxt.error # "none"
              THEN /\ res_detailed' = [error |-> nxt.error]
                   /\ pc' = "simple_start"
                   /\ UNCHANGED <<qty, cash, final_coupon_cash, log>>
              ELSE /\ qty' = nxt.qty
                   /\ cash' = nxt.cash
                   /\ final_coupon_cash' = nxt.final_coupon_cash
                   /\ log' = Append(log, IF nxt.stopped THEN "last_coupon" ELSE "coupon")
                   /\ pc' = IF nxt.stopped THEN "detailed_return" ELSE "detailed_loop"
                   /\ UNCHANGED res_detailed
    /\ UNCHANGED <<inputVars, res_simple, solverVars>>

\* the loop of simulate_reinvest_detailed runs out of coupons
DetailedLoopEnd ==
    /\ pc = "detailed_loop"
    /\ idx = Len(FutureCoupons(bond, purchase_date))
    /\ pc' = "detailed_return"
    /\ UNCHANGED <<inputVars, simVars, solverVars>>

\* simulate_reinvest_detailed after the loop: redemption, profit, return
DetailedReturn ==
    /\ pc = "detailed_return"
    /\ res_detailed' = DetailedResult(current, bond, purchase_date, initial_qty, log)
    /\ pc' = "simple_start"
    /\ UNCHANGED <<inputVars, qty, cash, final_coupon_cash, idx, log, res_simple, solverVars>>

\* SimpleEnter that starts from the cash the previous call left behind
SimpleEnter_KeepsCash ==
    /\ pc = "simple_start"
    /\ qty' = initial_qty
    /\ final_coupon_cash' = 0
    /\ idx' = 0
    /\ pc' = "simple_loop"
    /\ UNCHANGED <<inputVars, cash, log, res_detailed, res_simple, solverVars>>

\* simulate_reinvest_simple up to the loop
SimpleEnter ==
    /\ pc = "simple_start"
    /\ qty' = initial_qty
    /\ cash' = 0
    /\ final_coupon_cash' = 0
    /\ idx' = 0
    /\ pc' = "simple_loop"
    /\ UNCHANGED <<inputVars, log, res_detailed, res_simple, solverVars>>

\* one iteration of the loop of simulate_reinvest_simple
SimpleCouponStep ==
    /\ pc = "simple_loop"
    /\ idx < Len(FutureCoupons(bond, purchase_date))
    /\ LET c == FutureCoupons(bond, purchase_date)[idx + 1]
           nxt == SimpleStep(current, c, bond, reinvest_price, allow_carry_over)
       IN  /\ idx' = idx + 1
           /\ IF nxt.error # "none"
              THEN /\ res_simple' = SimpleResult(nxt, bond)
                   /\ pc' = "done"
                   /\ UNCHANGED <<qty, cash, final_coupon_cash>>
              ELSE /\ qty' = nxt.qty
                   /\ cash' = nxt.cash
                   /\ final_coupon_cash' = nxt.final_coupon_cash
                   /\ pc' = IF nxt.stopped THEN "simple_return" ELSE "simple_loop"
                   /\ UNCHANGED res_simple
    /\ UNCHANGED <<inputVars, log, res_detailed, solverVars>>

\* the loop of simulate_reinvest_simple runs out of coupons
SimpleLoopEnd ==
    /\ pc = "simple_loop"
    /\ idx = Len(FutureCoupons(bond, purchase_date))
    /\ pc' = "simple_return"
    /\ UNCHANGED <<inputVars, simVars, solverVars>>

\* simulate_reinvest_simple after the loop: redemption and return
SimpleReturn ==
    /\ pc = "simple_return"
    /\ res_simple' = SimpleResult(current, bond)
    /\ pc' = "done"
    /\ UNCHANGED <<inputVars, qty, cash, final_coupon_cash, idx, log, res_detailed, solverVars>>

Next ==
    \/ DetailedEnter
    \/ DetailedCouponStep
    \/ DetailedLoopEnd
    \/ DetailedReturn
    \/ SimpleEnter
    \/ SimpleCouponStep
    \/ SimpleLoopEnd
    \/ SimpleReturn

Spec == Init /\ [][Next]_vars

(***************************************************************************)
(* find_min_qty_for_target, run probe by probe.                            *)
(***************************************************************************)
\* the simulation the solver calls: reinvest_price = bond["face_value"]
Probe(q) ==
    simulate_reinvest_simple(bond, purchase_date, q, bond.face_value, allow_carry_over)

\* target amounts: negative, zero, a few lots, and amounts at and beyond the ceiling
Targets(b) ==
    {0 - b.face_value, 0}
    \cup { b.face_value * k + d : k \in 1..MaxTargetLots, d \in {0, 1} }
    \cup { b.face_value * 8388608, b.face_value * 9000000 + 1,
           b.face_value * 21000000, b.face_value * 80000000 }

\* the state in which a caller is about to invoke find_min_qty_for_target
SolverInit ==
    /\ bond \in { b \in Bonds : /\ b.purchase_price_with_nkd # 0
                                /\ Len(b.coupons) <= MaxSolverCoupons }
    /\ purchase_date \in Dates
    /\ initial_qty = NoValue
    /\ reinvest_price = NoValue
    /\ allow_carry_over \in BOOLEAN
    /\ target_amount \in Targets(bond)
    /\ pc = "solve_start"
    /\ SimIdle
    /\ SolverIdle

\* the probe of quantity 1 and the early return
SolveFirstProbe ==
    /\ pc = "solve_start"
    /\ LET result == Probe(1)
       IN  /\ probes' = Append(probes, 1)
           /\ IF result.final_amount >= target_amount
              THEN /\ res_solver' = [error |-> "none", initial_qty |-> 1,
                                     final_amount |-> result.final_amount]
                   /\ pc' = "solve_done"
                   /\ UNCHANGED <<lower_qty, lower_val, upper_qty>>
              ELSE /\ lower_qty' = 1
                   /\ lower_val' = result.final_amount
                   /\ upper_qty' = 2
                   /\ pc' = "bracket"
                   /\ UNCHANGED res_solver
    /\ UNCHANGED <<inputVars, simVars, upper_val, best_qty, best_val, left, right>>

\* SolveBracketStep with a ceiling one digit short
SolveBracketStep_ShortCeiling ==
    /\ pc = "bracket"
    /\ LET upper_res == Probe(upper_qty)
       IN  /\ probes' = Append(probes, upper_qty)
           /\ upper_val' = upper_res.final_amount
           /\ IF upper_res.final_amount >= target_amount
              THEN /\ pc' = "bracketed"
                   /\ UNCHANGED <<lower_qty, lower_val, upper_qty, res_solver>>
              ELSE /\ lower_qty' = upper_qty
                   /\ lower_val' = upper_res.final_amount
                   /\ upper_qty' = upper_qty * 2
                   /\ IF upper_qty * 2 > 1000000
                      THEN /\ res_solver' = [error |-> "ValueError"]
                           /\ pc' = "solve_done"
                      ELSE /\ pc' = "bracket"
                           /\ UNCHANGED res_solver
    /\ UNCHANGED <<inputVars, simVars, best_qty, best_val, left, right>>

\* SolveBracketStep that clamps the probe to the ceiling instead of raising
SolveBracketStep_ClampsToCeiling ==
    /\ pc = "bracket"
    /\ LET upper_res == Probe(upper_qty)
       IN  /\ probes' = Append(probes, upper_qty)
           /\ upper_val' = upper_res.final_amount
           /\ IF upper_res.final_amount >= target_amount
              THEN /\ pc' = "bracketed"
                   /\ UNCHANGED <<lower_qty, lower_val, upper_qty, res_solver>>
              ELSE /\ lower_qty' = upper_qty
                   /\ lower_val' = upper_res.final_amount
                   /\ IF upper_qty * 2 > Ceiling
                      THEN /\ upper_qty' = Ceiling
                           /\ pc' = "bracketed"
                      ELSE /\ upper_qty' = upper_qty * 2
                           /\ pc' = "bracket"
                   /\ UNCHANGED res_solver
    /\ UNCHANGED <<inputVars, simVars, best_qty, best_val, left, right>>

\* SolveBracketStep that doubles the probe but does not move lower_qty
SolveBracketStep_KeepsLower ==
    /\ pc = "bracket"
    /\ LET upper_res == Probe(upper_qty)
       IN  /\ probes' = Append(probes, upper_qty)
           /\ upper_val' = upper_res.final_amount
           /\ IF upper_res.final_amount >= target_amount
              THEN /\ pc' = "bracketed"
                   /\ UNCHANGED <<lower_qty, lower_val, upper_qty, res_solver>>
              ELSE /\ UNCHANGED <<lower_qty, lower_val>>
                   /\ upper_qty' = upper_qty * 2
                   /\ IF upper_qty * 2 > Ceiling
                      THEN /\ res_solver' = [error |-> "ValueError"]
                           /\ pc' = "solve_done"
                      ELSE /\ pc' = "bracket"
                           /\ UNCHANGED res_solver
    /\ UNCHANGED <<inputVars, simVars, best_qty, best_val, left, right>>

\* one iteration of the exponential bracketing loop
SolveBracketStep ==
    /\ pc = "bracket"
    /\ LET upper_res == Probe(upper_qty)
       IN  /\ probes' = Append(probes, upper_qty)
           /\ upper_val' = upper_res.final_amount
           /\ IF upper_res.final_amount >= target_amount
              THEN /\ pc' = "bracketed"
                   /\ UNCHANGED <<lower_qty, lower_val, upper_qty, res_solver>>
              ELSE /\ lower_qty' = upper_qty
                   /\ lower_val' = upper_res.final_amount
                   /\ upper_qty' = upper_qty * 2
                   /\ IF upper_qty * 2 > Ceiling
                      THEN /\ res_solver' = [error |-> "ValueError"]
                           /\ pc' = "solve_done"
                      ELSE /\ pc' = "bracket"
                           /\ UNCHANGED res_solver
    /\ UNCHANGED <<inputVars, simVars, best_qty, best_val, left, right>>

\* SolveBinaryInit that starts the interval at lower_qty itself
SolveBinaryInit_FromLower ==
    /\ pc = "bracketed"
    /\ best_qty' = upper_qty
    /\ best_val' = upper_val
    /\ left' = lower_qty
    /\ right' = upper_qty
    /\ pc' = "binary"
    /\ UNCHANGED <<inputVars, simVars, lower_qty, lower_val, upper_qty, upper_val,
                   probes, res_solver>>

\* the start of the binary search: the first best candidate and the interval
SolveBinaryInit ==
    /\ pc = "bracketed"
    /\ best_qty' = upper_qty
    /\ best_val' = upper_val
    /\ left' = lower_qty + 1
    /\ right' = upper_qty
    /\ pc' = "binary"
    /\ UNCHANGED <<inputVars, simVars, lower_qty, lower_val, upper_qty, upper_val,
                   probes, res_solver>>

\* SolveBinaryStep that moves best_qty without its best_val
SolveBinaryStep_StaleBestVal ==
    /\ pc = "binary"
    /\ left <= right
    /\ LET mid == (left + right) \div 2
           mid_res == Probe(mid)
       IN  /\ probes' = Append(probes, mid)
           /\ IF mid_res.final_amount >= target_amount
              THEN /\ IF mid_res.final_amount < best_val \/ mid < best_qty
                      THEN /\ best_qty' = mid
                           /\ UNCHANGED best_val
                      ELSE UNCHANGED <<best_qty, best_val>>
                   /\ right' = mid - 1
                   /\ UNCHANGED left
              ELSE /\ left' = mid + 1
                   /\ UNCHANGED <<right, best_qty, best_val>>
    /\ UNCHANGED <<inputVars, pc, simVars, lower_qty, lower_val, upper_qty, upper_val,
                   res_solver>>

\* SolveBinaryStep with the comparisons of the tie-break reversed
SolveBinaryStep_ReversedTieBreak ==
    /\ pc = "binary"
    /\ left <= right
    /\ LET mid == (left + right) \div 2
           mid_res == Probe(mid)
       IN  /\ probes' = Append(probes, mid)
           /\ IF mid_res.final_amount >= target_amount
              THEN /\ IF mid_res.final_amount > best_val \/ mid > best_qty
                      THEN /\ best_qty' = mid
                           /\ best_val' = mid_res.final_amount
                      ELSE UNCHANGED <<best_qty, best_val>>
                   /\ right' = mid - 1
                   /\ UNCHANGED left
              ELSE /\ left' = mid + 1
                   /\ UNCHANGED <<right, best_qty, best_val>>
    /\ UNCHANGED <<inputVars, pc, simVars, lower_qty, lower_val, upper_qty, upper_val,
                   res_solver>>

\* SolveBinaryStep that makes a midpoint the best candidate even when it misses
SolveBinaryStep_BestOnMiss ==
    /\ pc = "binary"
    /\ left <= right
    /\ LET mid == (left + right) \div 2
           mid_res == Probe(mid)
       IN  /\ probes' = Append(probes, mid)
           /\ IF mid_res.final_amount >= target_amount
              THEN /\ IF mid_res.final_amount < best_val \/ mid < best_qty
                      THEN /\ best_qty' = mid
                           /\ best_val' = mid_res.final_amount
                      ELSE UNCHANGED <<best_qty, best_val>>
                   /\ right' = mid - 1
                   /\ UNCHANGED left
              ELSE /\ left' = mid + 1
                   /\ best_qty' = mid
                   /\ best_val' = mid_res.final_amount
                   /\ UNCHANGED right
    /\ UNCHANGED <<inputVars, pc, simVars, lower_qty, lower_val, upper_qty, upper_val,
                   res_solver>>

\* SolveBinaryStep that keeps the midpoint in the interval after a hit
SolveBinaryStep_RightStaysAtMid ==
    /\ pc = "binary"
    /\ left <= right
    /\ LET mid == (left + right) \div 2
           mid_res == Probe(mid)
       IN  /\ probes' = Append(probes, mid)
           /\ IF mid_res.final_amount >= target_amount
              THEN /\ IF mid_res.final_amount < best_val \/ mid < best_qty
                      THEN /\ best_qty' = mid
                           /\ best_val' = mid_res.final_amount
                      ELSE UNCHANGED <<best_qty, best_val>>
                   /\ right' = mid
                   /\ UNCHANGED left
              ELSE /\ left' = mid + 1
                   /\ UNCHANGED <<right, best_qty, best_val>>
    /\ UNCHANGED <<inputVars, pc, simVars, lower_qty, lower_val, upper_qty, upper_val,
                   res_solver>>

\* one iteration of the binary search loop
SolveBinaryStep ==
    /\ pc = "binary"
    /\ left <= right
    /\ LET mid == (left + right) \div 2
           mid_res == Probe(mid)
       IN  /\ probes' = Append(probes, mid)
           /\ IF mid_res.final_amount >= target_amount
              THEN /\ IF mid_res.final_amount < best_val \/ mid < best_qty
                      THEN /\ best_qty' = mid
                           /\ best_val' = mid_res.final_amount
                      ELSE UNCHANGED <<best_qty, best_val>>
                   /\ right' = mid - 1
                   /\ UNCHANGED left
              ELSE /\ left' = mid + 1
                   /\ UNCHANGED <<right, best_qty, best_val>>
    /\ UNCHANGED <<inputVars, pc, simVars, lower_qty, lower_val, upper_qty, upper_val,
                   res_solver>>

\* SolveReturn that returns the upper end of the bracket
SolveReturn_ReturnsUpper ==
    /\ pc = "binary"
    /\ left > right
    /\ res_solver' = [error |-> "none", initial_qty |-> upper_qty, final_amount |-> upper_val]
    /\ pc' = "solve_done"
    /\ UNCHANGED <<inputVars, simVars, lower_qty, lower_val, upper_qty, upper_val,
                   best_qty, best_val, left, right, probes>>

\* the binary search is over: return the best candidate
SolveReturn ==
    /\ pc = "binary"
    /\ left > right
    /\ res_solver' = [error |-> "none", initial_qty |-> best_qty, final_amount |-> best_val]
    /\ pc' = "solve_done"
    /\ UNCHANGED <<inputVars, simVars, lower_qty, lower_val, upper_qty, upper_val,
                   best_qty, best_val, left, right, probes>>

SolverNext ==
    \/ SolveFirstProbe
    \/ SolveBracketStep
    \/ SolveBinaryInit
    \/ SolveBinaryStep
    \/ SolveReturn

SolverSpec == SolverInit /\ [][SolverNext]_vars

\* the calls whose termination is checked: those on bonds of at most one coupon
SolverFairInit ==
    /\ SolverInit
    /\ Len(bond.coupons) <= 1

\* a call that has started keeps running: the function is sequential code
SolverFairSpec == SolverFairInit /\ [][SolverNext]_vars /\ WF_vars(SolverNext)

(***************************************************************************)
(* Properties of find_min_qty_for_target (checked under SolverSpec).       *)
(***************************************************************************)
SolverReturned == pc = "solve_done" /\ res_solver.error = "none"

RECURSIVE PowersOfTwoUpTo(_, _)
PowersOfTwoUpTo(p, limit) ==
    IF p > limit THEN {} ELSE {p} \cup PowersOfTwoUpTo(2 * p, limit)

\* the quantities 1, 2, 4, ... that do not exceed the ceiling
BracketQuantities == PowersOfTwoUpTo(1, Ceiling)

\* C1: whenever the solver returns, the returned initial_qty q is a positive
\* integer, the simple simulation of q at reinvest_price = face_value reaches
\* target_amount, and the returned final_amount is that simulated value.
C1_ReturnedQtyReachesTarget ==
    SolverReturned =>
        /\ res_solver.initial_qty \in Nat \ {0}
        /\ simulate_reinvest_simple(bond, purchase_date, res_solver.initial_qty,
                                    bond.face_value, allow_carry_over).final_amount
               >= target_amount
        /\ res_solver.final_amount =
               simulate_reinvest_simple(bond, purchase_date, res_solver.initial_qty,
                                        bond.face_value, allow_carry_over).final_amount

\* C1 witness: the binary search returned a quantity above 2 whose amount
\* exceeds the target
C1_Witness ==
    /\ SolverReturned
    /\ res_solver.initial_qty > 2
    /\ res_solver.initial_qty < upper_qty
    /\ res_solver.final_amount > target_amount

\* C2: minimality: whenever the solver returns q, either q = 1 or the
\* simulation of q - 1 stays below the target.
C2_Minimality ==
    SolverReturned =>
        \/ res_solver.initial_qty = 1
        \/ Probe(res_solver.initial_qty - 1).final_amount < target_amount

\* C2 witness: a quantity strictly inside the bracket was returned after
\* several binary search probes
C2_Witness ==
    /\ SolverReturned
    /\ res_solver.initial_qty > lower_qty + 1
    /\ res_solver.initial_qty < upper_qty
    /\ Len(probes) > 5

\* C3 as stated: a target that the quantity 10,000,000 (a quantity not
\* exceeding the ceiling) reaches is answered with a result, not the error.
C3_CompleteBelowCeiling ==
    (pc = "solve_done" /\ Probe(Ceiling).final_amount >= target_amount)
        => res_solver.error = "none"

\* C3 amended: the solver returns a result exactly when one of the probed
\* quantities 1, 2, 4, ..., 8388608 (the powers of two that do not exceed the
\* ceiling) reaches the target, and raises the bound error otherwise.
C3_CompleteOnBracketQuantities ==
    pc = "solve_done" =>
        /\ res_solver.error \in {"none", "ValueError"}
        /\ res_solver.error = "none"
               <=> \E p \in BracketQuantities : Probe(p).final_amount >= target_amount

\* C3 witness: a target only the last bracket below the ceiling reaches
C3_Witness ==
    /\ SolverReturned
    /\ res_solver.initial_qty > 4194304
    /\ upper_qty = 8388608

\* C4: the bound error is raised only after every probe up to the ceiling
\* missed the target, a run in which no bracket quantity reaches the target
\* ends with the error and without a quantity, and ValueError is the only
\* error of the solver.
C4_BoundFailure ==
    /\ res_solver.error \in {"pending", "none", "ValueError"}
    /\ res_solver.error = "ValueError" =>
           /\ pc = "solve_done"
           /\ upper_qty > Ceiling
           /\ \A i \in 1..Len(probes) : Probe(probes[i]).final_amount < target_amount
           /\ DOMAIN res_solver = {"error"}
    /\ (pc = "solve_done"
        /\ \A p \in BracketQuantities : Probe(p).final_amount < target_amount)
           => res_solver.error = "ValueError"

\* C4 witness: the error was raised after the 24 probes 1 .. 8388608
C4_Witness ==
    /\ pc = "solve_done"
    /\ res_solver.error = "ValueError"
    /\ Len(probes) = 24
    /\ Probe(8388608).final_amount < target_amount

\* C10: a negative target_amount is answered with an invalid-input error
\* and no quantity is returned.
C10_NegativeTargetRejected ==
    (pc = "solve_done" /\ target_amount < 0) => res_solver.error = "InvalidInput"

(***************************************************************************)
(* Properties of the simulation (checked under Spec).                      *)
(***************************************************************************)
ValidSimInput == initial_qty >= 1 /\ reinvest_price > 0

IsLast(c) == c[1] >= bond.maturity_date

future_coupons == FutureCoupons(bond, purchase_date)

\* C5: for initial_qty >= 1 and reinvest_price > 0 both variants return,
\* with the same final_amount and the same final quantity.
C5_SimpleDetailedEquivalence ==
    (pc = "done" /\ ValidSimInput) =>
        /\ res_detailed.error = "none"
        /\ res_simple.error = "none"
        /\ res_detailed.final_amount = res_simple.final_amount
        /\ res_detailed.final_quantity = res_simple.final_qty

\* C6: with allow_carry_over = FALSE the cash is 0 after every coupon step
\* of either variant, and after the terminal event final_coupon_cash is
\* coupon_value * quantity alone.
C6_CarryOverSuppression ==
    (~allow_carry_over
     /\ pc \in {"detailed_loop", "detailed_return", "simple_loop", "simple_return"}) =>
        /\ cash = 0
        /\ (idx > 0 /\ IsLast(future_coupons[idx])) =>
               final_coupon_cash = future_coupons[idx][2] * qty

\* C6 witness: without carry-over, a reinvestment step left a remainder that
\* was dropped and the terminal event followed
C6_Witness ==
    /\ ~allow_carry_over
    /\ pc = "simple_return"
    /\ ValidSimInput
    /\ idx = 2
    /\ IsLast(future_coupons[2])
    /\ qty > initial_qty
    /\ (future_coupons[1][2] * initial_qty) % reinvest_price # 0
    /\ final_coupon_cash = future_coupons[2][2] * qty

\* C7: with no coupon on or after purchase_date, the simulation returns
\* final_quantity = initial_qty, final_amount = initial_qty * face_value and
\* profit = final_amount - initial_qty * purchase_price_with_nkd.
C7_NoCouponDegeneracy ==
    (pc = "done" /\ ValidSimInput /\ future_coupons = <<>>) =>
        /\ res_detailed.error = "none"
        /\ res_detailed.final_quantity = initial_qty
        /\ res_detailed.final_amount = initial_qty * bond.face_value
        /\ res_detailed.profit =
               res_detailed.final_amount - initial_qty * bond.purchase_price_with_nkd
        /\ res_simple = [error |-> "none", final_amount |-> initial_qty * bond.face_value,
                         final_qty |-> initial_qty]

RECURSIVE UpToLast(_, _)
\* the future coupons up to and including the first one on or after maturity
UpToLast(fc, i) ==
    IF i > Len(fc) THEN fc
    ELSE IF IsLast(fc[i]) THEN SubSeq(fc, 1, i)
    ELSE UpToLast(fc, i + 1)

\* the bond without the coupons that follow the terminal event
TruncatedBond == [bond EXCEPT !.coupons = UpToLast(future_coupons, 1)]

\* C8: the step that meets the first coupon with pay_date >= maturity_date
\* credits coupon income plus carried cash as final_coupon_cash, sets cash
\* to 0, leaves the quantity alone and ends the loop; and the results are
\* those of the schedule without the coupons after that event.
C8_TerminalEvent ==
    [][ /\ (pc \in {"detailed_loop", "simple_loop"}
            /\ idx' = idx + 1
            /\ IsLast(future_coupons[idx + 1])) =>
               /\ final_coupon_cash' = future_coupons[idx + 1][2] * qty
                                           + (IF allow_carry_over THEN cash ELSE 0)
               /\ cash' = 0
               /\ qty' = qty
               /\ pc' = (IF pc = "detailed_loop" THEN "detailed_return" ELSE "simple_return")
        /\ (pc # "done" /\ pc' = "done") =>
               /\ res_simple' = simulate_reinvest_simple(TruncatedBond, purchase_date,
                                    initial_qty, reinvest_price, allow_carry_over)
               /\ res_detailed'.error =
                      simulate_reinvest_detailed(TruncatedBond, purchase_date,
                          initial_qty, reinvest_price, allow_carry_over).error
               /\ res_detailed'.error = "none" =>
                      res_detailed'.final_amount =
                          simulate_reinvest_detailed(TruncatedBond, purchase_date,
                              initial_qty, reinvest_price, allow_carry_over).final_amount
      ]_vars

\* C8 witness: carried cash was credited by a terminal event that another
\* coupon follows in the schedule
C8_Witness ==
    /\ pc = "done"
    /\ ValidSimInput
    /\ allow_carry_over
    /\ Len(future_coupons) = 3
    /\ ~IsLast(future_coupons[1])
    /\ IsLast(future_coupons[2])
    /\ Round2((future_coupons[1][2] * initial_qty) % reinvest_price) > 0
    /\ res_simple.error = "none"
    /\ res_detailed.error = "none"

\* C9: for initial_qty <= 0 or reinvest_price <= 0 neither variant returns
\* a result: the call is rejected.
C9_InvalidSimInputRejected ==
    (initial_qty <= 0 \/ reinvest_price <= 0) =>
        /\ res_detailed.error # "none"
        /\ res_simple.error # "none"


\* C11 as stated: with purchase_date >= maturity_date both variants return,
\* no coupon is credited and final_amount = initial_qty * face_value.
C11_RedemptionOnlyAfterMaturity ==
    (pc = "done" /\ ValidSimInput /\ purchase_date >= bond.maturity_date) =>
        /\ res_detailed.error = "none"
        /\ res_simple.error = "none"
        /\ res_detailed.final_amount = initial_qty * bond.face_value
        /\ res_simple.final_amount = initial_qty * bond.face_value

\* C11 amended: with purchase_date >= maturity_date both variants return,
\* nothing is reinvested (the quantity stays initial_qty), and final_amount
\* is initial_qty * face_value plus, when a coupon with pay_date >=
\* purchase_date exists, the first such coupon credited on initial_qty.
C11_NoErrorAfterMaturity ==
    (pc = "done" /\ ValidSimInput /\ purchase_date >= bond.maturity_date) =>
        LET credited == IF future_coupons = <<>> THEN 0
                        ELSE future_coupons[1][2] * initial_qty
        IN  /\ res_detailed.error = "none"
            /\ res_simple.error = "none"
            /\ res_detailed.final_quantity = initial_qty
            /\ res_simple.final_qty = initial_qty
            /\ res_detailed.final_amount = initial_qty * bond.face_value + credited
            /\ res_simple.final_amount = initial_qty * bond.face_value + credited

\* C11 witness: a purchase on the maturity date of a bond bought at price 0
\* with a coupon due on or after that date
C11_Witness ==
    /\ pc = "done"
    /\ ValidSimInput
    /\ purchase_date = bond.maturity_date
    /\ bond.purchase_price_with_nkd = 0
    /\ Len(future_coupons) >= 2
    /\ res_detailed.error = "none"
    /\ res_detailed.final_amount > initial_qty * bond.face_value


\* the arguments of the worked scenario
WorkedScenario ==
    /\ bond = WorkedBond
    /\ purchase_date = 1
    /\ initial_qty = 10
    /\ reinvest_price = Rub(1000)
    /\ allow_carry_over

\* C14: in the worked scenario the detailed simulation holds cash 350 and
\* quantity 10 after the first coupon, and returns quantity 10, final_amount
\* 20700, initial_investment 9800 and profit 10900.
C14_WorkedScenario ==
    WorkedScenario =>
        /\ (pc = "detailed_loop" /\ idx = 1) => (cash = Rub(350) /\ qty = 10)
        /\ pc \in {"simple_start", "simple_loop", "simple_return", "done"} =>
               /\ res_detailed.error = "none"
               /\ res_detailed.final_quantity = 10
               /\ res_detailed.final_amount = Rub(20700)
               /\ res_detailed.initial_investment = Rub(9800)
               /\ res_detailed.profit = Rub(10900)

\* C14 witness: the detailed simulation of the worked scenario has returned
C14_Witness ==
    /\ WorkedScenario
    /\ pc = "simple_start"
    /\ idx = 2
    /\ final_coupon_cash = Rub(10700)
    /\ res_detailed.error = "none"


\* the final_amount the solver's simulation gives for the quantity q
Amount(q) == Probe(q).final_amount

NonTerminalStep ==
    /\ pc \in {"detailed_loop", "simple_loop"}
    /\ idx < Len(future_coupons)
    /\ ~IsLast(future_coupons[idx + 1])
    /\ reinvest_price # 0

\* coupon_value * quantity + (cash if carry-over else 0) of the coupon about to be processed
StepTotal ==
    future_coupons[idx + 1][2] * qty + (IF allow_carry_over THEN cash ELSE 0)

(***************************************************************************)
(* C15 as stated. Non-terminal step: the step buys floor(total /           *)
(* reinvest_price) units and, with carry-over enabled, sets cash to        *)
(* exactly total - reinvest_qty * reinvest_price, so no money is lost.     *)
(***************************************************************************)
C15_ExactRemainder ==
    [][ (NonTerminalStep /\ ValidSimInput /\ idx' = idx + 1) =>
            LET reinvest_qty == StepTotal \div reinvest_price
            IN  /\ qty' = qty + reinvest_qty
                /\ allow_carry_over => cash' = StepTotal - reinvest_qty * reinvest_price
      ]_vars

(***************************************************************************)
(* C15 as the code has it. Non-terminal step: the step buys reinvest_qty   *)
(* = floor(total / reinvest_price) whole units (the remainder total -      *)
(* reinvest_qty * reinvest_price lies between 0 and the price) and adds    *)
(* them to quantity; with carry-over enabled cash becomes that remainder   *)
(* rounded to 2 decimal places, a whole number of kopecks at most half a   *)
(* kopeck away from it; with carry-over disabled cash becomes 0.           *)
(***************************************************************************)
C15_RoundedRemainder ==
    [][ (NonTerminalStep /\ idx' = idx + 1) =>
            LET reinvest_qty == qty' - qty
                remainder == StepTotal - reinvest_qty * reinvest_price
            IN  /\ IF reinvest_price > 0
                   THEN 0 <= remainder /\ remainder < reinvest_price
                   ELSE reinvest_price < remainder /\ remainder <= 0
                /\ IF allow_carry_over
                   THEN /\ cash' % CentUnits = 0
                        /\ 2 * (cash' - remainder) <= CentUnits
                        /\ 2 * (remainder - cash') <= CentUnits
                   ELSE cash' = 0
      ]_vars

\* the first coupon was reinvested before maturity with carry-over, units were
\* bought, and the cash kept is the remainder rounded up to a whole kopeck
C15_Witness ==
    /\ pc \in {"detailed_loop", "simple_loop"}
    /\ ValidSimInput
    /\ allow_carry_over
    /\ idx = 1
    /\ ~IsLast(future_coupons[1])
    /\ qty > initial_qty
    /\ cash > future_coupons[1][2] * initial_qty - (qty - initial_qty) * reinvest_price


\* every future coupon is paid before maturity: the loop ends without a terminal event
NoTerminalEvent ==
    \A i \in 1..Len(future_coupons) : ~IsLast(future_coupons[i])

(***************************************************************************)
(* C16. Final amount composition: when a variant returns, final_amount is  *)
(* the final quantity times face_value plus final_coupon_cash plus cash;   *)
(* when the future coupons run out without a terminal event,               *)
(* final_coupon_cash is 0 and the cash left by the last reinvestment step  *)
(* is part of final_amount.                                                *)
(***************************************************************************)
C16_FinalAmountComposition ==
    /\ (pc = "simple_start" /\ res_detailed.error = "none") =>
           /\ res_detailed.final_quantity = qty
           /\ res_detailed.final_amount = qty * bond.face_value + final_coupon_cash + cash
           /\ NoTerminalEvent =>
                  /\ final_coupon_cash = 0
                  /\ res_detailed.final_amount = qty * bond.face_value + cash
    /\ (pc = "done" /\ res_simple.error = "none") =>
           /\ res_simple.final_qty = qty
           /\ res_simple.final_amount = qty * bond.face_value + final_coupon_cash + cash
           /\ NoTerminalEvent =>
                  /\ final_coupon_cash = 0
                  /\ res_simple.final_amount = qty * bond.face_value + cash

\* the simple variant returned after coupons that were all reinvested before
\* maturity, and cash was left over by the last step
C16_Witness ==
    /\ pc = "done"
    /\ ValidSimInput
    /\ res_simple.error = "none"
    /\ allow_carry_over
    /\ Len(future_coupons) >= 2
    /\ NoTerminalEvent
    /\ cash > 0
    /\ res_simple.final_amount > qty * bond.face_value


C18_BracketingInvariant ==
    /\ (pc \in {"bracket", "bracketed"} \/ (pc = "solve_done" /\ res_solver.error = "ValueError")) =>
           /\ \A i \in 1..Len(probes) : probes[i] \in BracketQuantities
           /\ probes # <<>> => probes[1] = 1
           /\ \A i \in 2..Len(probes) : probes[i] = 2 * probes[i - 1]
    /\ pc = "bracketed" =>
           /\ upper_qty = 2 * lower_qty
           /\ upper_qty = probes[Len(probes)]
           /\ Amount(lower_qty) < target_amount
           /\ Amount(upper_qty) >= target_amount
           /\ lower_val = Amount(lower_qty)
           /\ upper_val = Amount(upper_qty)

\* the bracketing ended successfully after the probe was doubled several times
C18_Witness ==
    /\ pc = "bracketed"
    /\ Len(probes) >= 4
    /\ lower_qty >= 4
    /\ upper_val >= target_amount


\* the number of probes the bracketing made: it ended with the first probe of upper_qty
BracketProbes ==
    CHOOSE k \in 1..Len(probes) : probes[k] = upper_qty /\ \A j \in 1..(k - 1) : probes[j] # upper_qty

(***************************************************************************)
(* C19. Binary-search invariant: at every iteration every probed midpoint  *)
(* lies in (lower_qty, upper_qty], best_qty meets the target and is the    *)
(* smallest quantity probed so far that does, best_val is the simulated    *)
(* final_amount of best_qty, and every probed quantity in (lower_qty,      *)
(* left) missed the target.                                                *)
(***************************************************************************)
C19_BinarySearchInvariant ==
    pc = "binary" =>
        /\ best_val = Amount(best_qty)
        /\ best_val >= target_amount
        /\ best_qty \in { probes[i] : i \in 1..Len(probes) }
        /\ \A i \in 1..(BracketProbes - 1) : probes[i] <= lower_qty
        /\ \A i \in (BracketProbes + 1)..Len(probes) :
               LET mid == probes[i]
               IN  /\ lower_qty < mid
                   /\ mid <= upper_qty
                   /\ Amount(mid) >= target_amount => best_qty <= mid
                   /\ mid < left => Amount(mid) < target_amount

\* the binary search has run to its end over several midpoints, some of which
\* met the target and some of which missed it
C19_Witness ==
    /\ pc = "binary"
    /\ left > right
    /\ Len(probes) >= BracketProbes + 3
    /\ best_qty < upper_qty
    /\ left > lower_qty + 1


RECURSIVE CeilLog2(_)
\* the least k with 2^k >= n
CeilLog2(n) == IF n <= 1 THEN 0 ELSE 1 + CeilLog2((n + 1) \div 2)

\* 1 + 2 * ceil(log2(ceiling)) simulator calls
MaxSolverCalls == 1 + 2 * CeilLog2(Ceiling)

(***************************************************************************)
(* C20. Termination: for every bond and target find_min_qty_for_target     *)
(* ends, by returning or by raising the bound-exceeded error, after at     *)
(* most 1 + 2 * ceil(log2(ceiling)) simulator calls: the probe doubles on  *)
(* each bracketing step and right - left strictly shrinks on each          *)
(* binary-search step.                                                     *)
(***************************************************************************)
C20_Termination ==
    /\ <>(pc = "solve_done")
    /\ [](Len(probes) <= MaxSolverCalls)
    /\ [][ /\ (pc = "bracket" /\ pc' = "bracket") => upper_qty' = 2 * upper_qty
           /\ (pc = "binary" /\ probes' # probes) => right' - left' < right - left
         ]_vars

\* the solver has ended after a bracketing that reached the last power of two
\* below the ceiling and a binary search of more than twenty midpoints
C20_Witness ==
    /\ pc = "solve_done"
    /\ res_solver.error = "none"
    /\ upper_qty = 8388608
    /\ Len(probes) >= 45


\* the number of coupons of the schedule paid before the purchase date
PastCount ==
    Cardinality({ i \in DOMAIN bond.coupons : bond.coupons[i][1] < purchase_date })

\* the bond with the coupons paid before the purchase date removed
WithoutPast ==
    [bond EXCEPT !.coupons = SubSeq(bond.coupons, PastCount + 1, Len(bond.coupons))]

\* the bond with the value of every coupon paid before the purchase date changed
WithChangedPast ==
    [bond EXCEPT !.coupons = [i \in DOMAIN bond.coupons |->
                                 IF bond.coupons[i][1] < purchase_date
                                 THEN <<bond.coupons[i][1], bond.coupons[i][2] + 1>>
                                 ELSE bond.coupons[i]]]

\* the bond with one more coupon, paid before every purchase date
WithAddedPast ==
    [bond EXCEPT !.coupons = <<(<<0, 7>>)>> \o bond.coupons]

PastVariants == {WithoutPast, WithChangedPast, WithAddedPast}

(***************************************************************************)
(* C21. Coupon filtering: the loop of either variant processes exactly the *)
(* coupons with pay_date >= purchase_date, in schedule order, the coupon   *)
(* paid on the purchase date included; and removing, changing or adding    *)
(* coupons paid before the purchase date changes neither final_amount nor  *)
(* the final quantity.                                                     *)
(***************************************************************************)
C21_CouponFiltering ==
    [][ /\ (pc \in {"detailed_loop", "simple_loop"} /\ idx' = idx + 1) =>
               /\ PastCount + idx + 1 <= Len(bond.coupons)
               /\ LET c == bond.coupons[PastCount + idx + 1]
                      nxt == SimpleStep(current, c, bond, reinvest_price, allow_carry_over)
                  IN  /\ c[1] >= purchase_date
                      /\ (pc' \in {"detailed_loop", "simple_loop", "detailed_return", "simple_return"}) =>
                             /\ qty' = nxt.qty
                             /\ cash' = nxt.cash
                             /\ final_coupon_cash' = nxt.final_coupon_cash
        /\ (pc \in {"detailed_loop", "simple_loop"} /\ idx' = idx /\ pc' # pc) =>
               PastCount + idx = Len(bond.coupons)
        /\ (pc # "done" /\ pc' = "done") =>
               \A b \in PastVariants :
                   res_simple' = simulate_reinvest_simple(b, purchase_date, initial_qty,
                                                          reinvest_price, allow_carry_over)
        /\ (pc # "simple_start" /\ pc' = "simple_start" /\ res_detailed'.error = "none") =>
               \A b \in PastVariants :
                   LET other == simulate_reinvest_detailed(b, purchase_date, initial_qty,
                                                           reinvest_price, allow_carry_over)
                   IN  /\ other.error = "none"
                       /\ other.final_amount = res_detailed'.final_amount
                       /\ other.final_quantity = res_detailed'.final_quantity
      ]_vars

\* the simple variant returned for a schedule with a coupon before the purchase
\* date and a coupon on the purchase date, which was counted
C21_Witness ==
    /\ pc = "done"
    /\ ValidSimInput
    /\ res_simple.error = "none"
    /\ PastCount >= 1
    /\ Len(bond.coupons) > PastCount
    /\ bond.coupons[PastCount + 1][1] = purchase_date
    /\ res_simple.final_amount > initial_qty * bond.face_value


(***************************************************************************)
(* C22. Annualized-return guard: whenever purchase_date >= maturity_date   *)
(* the detailed simulation returns, its annualized_return is 0 (no         *)
(* division is made), initial_investment is initial_qty *                  *)
(* purchase_price_with_nkd and profit is final_amount - initial_investment.*)
(***************************************************************************)
C22_AnnualizedReturnGuard ==
    (pc = "simple_start" /\ purchase_date >= bond.maturity_date) =>
        /\ res_detailed.error = "none"
        /\ res_detailed.annualized_return.num = 0
        /\ res_detailed.initial_investment = initial_qty * bond.purchase_price_with_nkd
        /\ res_detailed.final_amount = qty * bond.face_value + final_coupon_cash + cash
        /\ res_detailed.profit = res_detailed.final_amount - res_detailed.initial_investment

\* the detailed variant returned for a purchase after maturity of a bond bought
\* at a positive price, with a profit that is not zero
C22_Witness ==
    /\ pc = "simple_start"
    /\ purchase_date > bond.maturity_date
    /\ initial_qty >= 1
    /\ bond.purchase_price_with_nkd > 0
    /\ res_detailed.error = "none"
    /\ res_detailed.profit # 0
    /\ res_detailed.annualized_return.num = 0


\* quantities below q at which minimality is examined: every one up to
\* MaxMonoQty, the three just below q, the eighths of q and the powers of two
Below(q) ==
    { p \in (1..MaxMonoQty) \cup {q - 1, q - 2, q - 3}
            \cup { (q * k) \div 8 : k \in 1..7 }
            \cup { (q \div 8) * k : k \in 1..7 }
            \cup BracketQuantities : 1 <= p /\ p < q }

CouponStepTaken ==
    /\ pc \in {"detailed_loop", "simple_loop"}
    /\ idx' = idx + 1
    /\ pc' \in {"detailed_loop", "simple_loop", "detailed_return", "simple_return"}

(***************************************************************************)
(* C24 as stated. Simulation state invariant: for initial_qty >= 1,        *)
(* reinvest_price > 0 and positive coupon values the held quantity never   *)
(* decreases from one coupon step to the next, reinvest_qty is never       *)
(* negative, and with carry-over enabled 0 <= cash < reinvest_price after  *)
(* every non-terminal step.                                                *)
(***************************************************************************)
C24_CashBelowPrice ==
    [][ (ValidSimInput /\ CouponStepTaken) =>
            /\ qty' >= qty
            /\ (allow_carry_over /\ NonTerminalStep) =>
                   (0 <= cash' /\ cash' < reinvest_price)
      ]_vars

(***************************************************************************)
(* C24 as the code has it. For initial_qty >= 1, reinvest_price > 0 and    *)
(* positive coupon values the held quantity never decreases from one       *)
(* coupon step to the next (so the final quantity is at least              *)
(* initial_qty), reinvest_qty is never negative, and with carry-over       *)
(* enabled the cash after a non-terminal step is not negative and is less  *)
(* than reinvest_price plus half a kopeck: it is the remainder rounded to  *)
(* 2 decimal places, which can reach reinvest_price.                       *)
(***************************************************************************)
C24_StateInvariant ==
    [][ /\ (ValidSimInput /\ CouponStepTaken) =>
               /\ qty' >= qty
               /\ qty >= initial_qty
               /\ (allow_carry_over /\ NonTerminalStep) =>
                      /\ 0 <= cash'
                      /\ 2 * (cash' - reinvest_price) < CentUnits
        /\ (ValidSimInput /\ pc' = "simple_start" /\ res_detailed'.error = "none") =>
               res_detailed'.final_quantity >= initial_qty
        /\ (ValidSimInput /\ pc' = "done" /\ res_simple'.error = "none") =>
               res_simple'.final_qty >= initial_qty
      ]_vars

\* the first coupon was paid before maturity with carry-over enabled, too small
\* to buy a unit, and the cash kept after rounding is not below reinvest_price
C24_Witness ==
    /\ pc \in {"detailed_loop", "simple_loop"}
    /\ ValidSimInput
    /\ allow_carry_over
    /\ idx = 1
    /\ ~IsLast(future_coupons[1])
    /\ qty = initial_qty
    /\ cash >= reinvest_price


\* the state of a simulation in the given carry-over mode after the first n
\* future coupons
AfterCoupons(n, carry) ==
    SimpleLoop(SimState(initial_qty, 0, 0, FALSE, "none"), SubSeq(future_coupons, 1, n), 1,
               bond, reinvest_price, carry)

(***************************************************************************)
(* C25. Carry-over dominance: for the same bond, purchase_date,            *)
(* initial_qty and reinvest_price, after every coupon step the simulation  *)
(* with carry-over holds at least the quantity of the simulation without   *)
(* it, and its final_amount is never smaller.                              *)
(***************************************************************************)
C25_CarryOverDominance ==
    [][ /\ (ValidSimInput /\ CouponStepTaken) =>
               LET with == IF allow_carry_over THEN qty' ELSE AfterCoupons(idx', TRUE).qty
                   without == IF allow_carry_over THEN AfterCoupons(idx', FALSE).qty ELSE qty'
               IN  with >= without
        /\ (ValidSimInput /\ pc # "done" /\ pc' = "done" /\ res_simple'.error = "none") =>
               LET other == simulate_reinvest_simple(bond, purchase_date, initial_qty,
                                                     reinvest_price, ~allow_carry_over)
               IN  IF allow_carry_over
                   THEN res_simple'.final_amount >= other.final_amount
                   ELSE other.final_amount >= res_simple'.final_amount
      ]_vars

\* the simple variant returned with carry-over enabled, with more units and a
\* larger final_amount than the same simulation without carry-over
C25_Witness ==
    /\ pc = "done"
    /\ ValidSimInput
    /\ allow_carry_over
    /\ res_simple.error = "none"
    /\ res_simple.final_qty > AfterCoupons(Len(future_coupons), FALSE).qty
    /\ res_simple.final_amount > simulate_reinvest_simple(bond, purchase_date, initial_qty,
                                                          reinvest_price, FALSE).final_amount


(***************************************************************************)
(* The copies of the three functions kept in ofz_target.py and             *)
(* ofz_curs.py, as functions of their arguments.                           *)
(***************************************************************************)
\* TargetStep that carries the remainder without rounding it
TargetStep_UnroundedCash(st, c, b, price, carry) ==
    LET total_coupon == c[2] * st.qty + (IF carry THEN st.cash ELSE 0)
        is_last_coupon == c[1] >= b.maturity_date
    IN  IF is_last_coupon
        THEN [st EXCEPT !.final_coupon_cash = total_coupon, !.cash = 0, !.stopped = TRUE]
        ELSE IF price = 0
        THEN [st EXCEPT !.error = "ZeroDivisionError"]
        ELSE LET reinvest_qty == FloorDiv(total_coupon, price)
             IN  [st EXCEPT !.cash = IF carry
                                     THEN total_coupon - reinvest_qty * price
                                     ELSE 0,
                            !.qty = st.qty + reinvest_qty]

\* ofz_target.simulate_reinvest: one iteration of the coupon loop
TargetStep(st, c, b, price, carry) ==
    LET total_coupon == c[2] * st.qty + (IF carry THEN st.cash ELSE 0)
        is_last_coupon == c[1] >= b.maturity_date
    IN  IF is_last_coupon
        THEN [st EXCEPT !.final_coupon_cash = total_coupon, !.cash = 0, !.stopped = TRUE]
        ELSE IF price = 0
        THEN [st EXCEPT !.error = "ZeroDivisionError"]
        ELSE LET reinvest_qty == FloorDiv(total_coupon, price)
             IN  [st EXCEPT !.cash = IF carry
                                     THEN Round2(total_coupon - reinvest_qty * price)
                                     ELSE 0,
                            !.qty = st.qty + reinvest_qty]

RECURSIVE TargetLoop(_, _, _, _, _, _)
\* the for loop of ofz_target.simulate_reinvest from the i-th future coupon on
TargetLoop(st, fc, i, b, price, carry) ==
    IF i > Len(fc) \/ st.stopped \/ st.error # "none"
    THEN st
    ELSE TargetLoop(TargetStep(st, fc[i], b, price, carry), fc, i + 1, b, price, carry)

\* ofz_target.simulate_reinvest
ofz_target_simulate_reinvest(b, pd, q, price, carry) ==
    LET st == TargetLoop(SimState(q, 0, 0, FALSE, "none"),
                         SelectSeq(b.coupons, LAMBDA c : c[1] >= pd), 1, b, price, carry)
    IN  IF st.error # "none"
        THEN [error |-> st.error, final_amount |-> NoValue, final_qty |-> NoValue]
        ELSE [error |-> "none",
              final_amount |-> st.qty * b.face_value + st.final_coupon_cash + st.cash,
              final_qty |-> st.qty]

\* the ceiling of the bracketing in ofz_target.find_min_qty_for_target
TargetCeiling == 10000000

RECURSIVE TargetBinary(_, _, _, _, _, _, _, _)
\* the binary search loop of ofz_target.find_min_qty_for_target
TargetBinary(b, pd, carry, target, l, r, bq, bv) ==
    IF l > r
    THEN [error |-> "none", initial_qty |-> bq, final_amount |-> bv]
    ELSE LET mid == (l + r) \div 2
             mid_val == ofz_target_simulate_reinvest(b, pd, mid, b.face_value, carry).final_amount
         IN  IF mid_val >= target
             THEN IF mid_val < bv \/ mid < bq
                  THEN TargetBinary(b, pd, carry, target, l, mid - 1, mid, mid_val)
                  ELSE TargetBinary(b, pd, carry, target, l, mid - 1, bq, bv)
             ELSE TargetBinary(b, pd, carry, target, mid + 1, r, bq, bv)

RECURSIVE TargetBracket(_, _, _, _, _, _)
\* the bracketing loop of ofz_target.find_min_qty_for_target, then its binary search
TargetBracket(b, pd, carry, target, lo, hi) ==
    LET hi_val == ofz_target_simulate_reinvest(b, pd, hi, b.face_value, carry).final_amount
    IN  IF hi_val >= target
        THEN TargetBinary(b, pd, carry, target, lo + 1, hi, hi, hi_val)
        ELSE IF hi * 2 > TargetCeiling
        THEN [error |-> "ValueError"]
        ELSE TargetBracket(b, pd, carry, target, hi, hi * 2)

\* ofz_target.find_min_qty_for_target
ofz_target_find_min_qty_for_target(b, pd, target, carry) ==
    LET result == ofz_target_simulate_reinvest(b, pd, 1, b.face_value, carry)
    IN  IF result.final_amount >= target
        THEN [error |-> "none", initial_qty |-> 1, final_amount |-> result.final_amount]
        ELSE TargetBracket(b, pd, carry, target, 1, 2)


\* ofz_curs.simulate_reinvest: one iteration of the coupon loop
CursStep(st, c, b, price, carry) ==
    LET coupon_income == c[2] * st.qty
        carry_over == IF carry THEN st.cash ELSE 0
        total_coupon == coupon_income + carry_over
        is_last_coupon == c[1] >= b.maturity_date
    IN  IF is_last_coupon
        THEN [st EXCEPT !.final_coupon_cash = total_coupon, !.cash = 0, !.stopped = TRUE]
        ELSE IF price = 0
        THEN [st EXCEPT !.error = "ZeroDivisionError"]
        ELSE LET reinvest_qty == FloorDiv(total_coupon, price)
                 reinvest_cost == reinvest_qty * price
             IN  [st EXCEPT !.cash = IF carry THEN Round2(total_coupon - reinvest_cost) ELSE 0,
                            !.qty = st.qty + reinvest_qty]

RECURSIVE CursLoop(_, _, _, _, _, _)
\* the for loop of ofz_curs.simulate_reinvest from the i-th future coupon on
CursLoop(st, fc, i, b, price, carry) ==
    IF i > Len(fc) \/ st.stopped \/ st.error # "none"
    THEN st
    ELSE CursLoop(CursStep(st, fc[i], b, price, carry), fc, i + 1, b, price, carry)

\* ofz_curs.simulate_reinvest (without the log)
ofz_curs_simulate_reinvest(b, pd, q, price, carry) ==
    LET st == CursLoop(SimState(q, 0, 0, FALSE, "none"),
                       SelectSeq(b.coupons, LAMBDA c : c[1] >= pd), 1, b, price, carry)
        initial_investment == q * b.purchase_price_with_nkd
        final_amount == st.qty * b.face_value + st.final_coupon_cash + st.cash
        profit == final_amount - initial_investment
        days == b.maturity_date - pd
    IN  IF st.error # "none"
        THEN [error |-> st.error]
        ELSE IF days > 0 /\ initial_investment = 0
        THEN [error |-> "ZeroDivisionError"]
        ELSE [error |-> "none",
              final_quantity |-> st.qty,
              final_amount |-> final_amount,
              initial_investment |-> initial_investment,
              profit |-> profit,
              annualized_return |-> IF days > 0
                                    THEN [num |-> profit, den |-> initial_investment * days]
                                    ELSE [num |-> 0, den |-> 1]]

\* what a result of the detailed simulation reports besides its log
Figures(r) ==
    IF r.error # "none"
    THEN <<r.error>>
    ELSE <<"none", r.final_quantity, r.final_amount, r.initial_investment, r.profit,
           r.annualized_return>>

\* the arguments the copies of the simulation are compared on
DupQtys == {0 - 1, 1, MaxQty}
DupPrices == {0 - 15, 0, 17, bond.face_value}
DupBonds == {bond, [bond EXCEPT !.purchase_price_with_nkd = 0]}

(***************************************************************************)
(* C26. Duplicate implementations agree: ofz_target.simulate_reinvest and  *)
(* ofz_target.find_min_qty_for_target return what                          *)
(* ofz_core.simulate_reinvest_simple and ofz_core.find_min_qty_for_target  *)
(* return, and ofz_curs.simulate_reinvest returns the final_quantity,      *)
(* final_amount, initial_investment, profit and annualized_return of       *)
(* ofz_core.simulate_reinvest_detailed, an error for an error.             *)
(***************************************************************************)
C26_DuplicatesAgree ==
    [][ /\ (pc = "solve_start" /\ pc' # "solve_start") =>
               \A q \in DupQtys : \A price \in DupPrices :
                   /\ simulate_reinvest_simple(bond, purchase_date, q, price, allow_carry_over)
                        = ofz_target_simulate_reinvest(bond, purchase_date, q, price,
                                                       allow_carry_over)
                   /\ \A b \in DupBonds :
                          Figures(simulate_reinvest_detailed(b, purchase_date, q, price,
                                                             allow_carry_over))
                            = Figures(ofz_curs_simulate_reinvest(b, purchase_date, q, price,
                                                                 allow_carry_over))
        /\ (pc \in {"bracket", "binary"} /\ probes' # probes) =>
               Probe(probes'[Len(probes')])
                 = ofz_target_simulate_reinvest(bond, purchase_date, probes'[Len(probes')],
                                                bond.face_value, allow_carry_over)
        /\ (pc # "solve_done" /\ pc' = "solve_done") =>
               res_solver' = ofz_target_find_min_qty_for_target(bond, purchase_date,
                                                                target_amount, allow_carry_over)
      ]_vars

\* the core solver returned a quantity found by its binary search for a bond
\* whose coupons are reinvested with carry-over, and the copy returns the same
C26_Witness ==
    /\ SolverReturned
    /\ allow_carry_over
    /\ Len(probes) >= 8
    /\ Len(future_coupons) >= 2
    /\ ~IsLast(future_coupons[1])
    /\ res_solver = ofz_target_find_min_qty_for_target(bond, purchase_date, target_amount,
                                                       allow_carry_over)


(***************************************************************************)
(* C27. No arithmetic failure on valid contracts: for every bond of the    *)
(* data model, purchase_price_with_nkd = 0 with a purchase before maturity *)
(* included, and initial_qty >= 1, reinvest_price > 0,                     *)
(* simulate_reinvest_detailed returns a result and never ends in a         *)
(* division by zero.                                                       *)
(***************************************************************************)
C27_NoArithmeticFailure ==
    (pc = "simple_start" /\ ValidSimInput /\ bond.purchase_price_with_nkd >= 0) =>
        res_detailed.error = "none"

====
